---- MODULE Spec2Model ----
(***************************************************************************)
(* State-machine model of the anchor-vault program                         *)
(* (src/programs/anchor-vault/src/lib.rs).                                 *)
(*                                                                         *)
(* The ledger state is the lamport balance of every account the program    *)
(* touches (each user's wallet, vault PDA and vault-state PDA), the data   *)
(* of every vault-state PDA, and the log of emitted events.  One action    *)
(* models one whole instruction (account validation, handler body, exit),  *)
(* executed as one transaction: an instruction that returns Err leaves the *)
(* ledger untouched.  `last` records the latest call and its result.       *)
(***************************************************************************)
EXTENDS Integers, Sequences, FiniteSets, TLC

VARIABLES lamports, vault_state, events, last

vars == <<lamports, vault_state, events, last>>

(***************************************************************************)
(* u64 lamport amounts.  TLC's integers are 32 bits wide and the program's *)
(* MAX_WITHDRAWAL_AMOUNT is 10^12, so an amount is kept as two decimal     *)
(* limbs, value = hi * 10^6 + lo with 0 <= lo < 10^6.  Every amount of the  *)
(* model stays far below 2^64, so the only u64 operation whose edge case   *)
(* can occur is saturating_sub, which is modelled with its saturation.     *)
(***************************************************************************)
Base == 1000 * 1000

U64(hi, lo) == [hi |-> hi, lo |-> lo]

Zero == U64(0, 0)

Leq(a, b) == a.hi < b.hi \/ (a.hi = b.hi /\ a.lo <= b.lo)

Lt(a, b) == ~Leq(b, a)

Add(a, b) ==
    LET s == a.lo + b.lo
    IN  U64(a.hi + b.hi + (s \div Base), s % Base)

\* a - b for b <= a
Sub(a, b) ==
    LET d == a.lo - b.lo
    IN  IF d >= 0 THEN U64(a.hi - b.hi, d) ELSE U64(a.hi - b.hi - 1, d + Base)

saturating_sub(a, b) == IF Leq(b, a) THEN Sub(a, b) ELSE Zero

(***************************************************************************)
(* Program constants (lib.rs:11-12).                                       *)
(***************************************************************************)
MIN_DEPOSIT_AMOUNT == U64(0, 1000)

MAX_WITHDRAWAL_AMOUNT == U64(1000 * 1000, 0)

(***************************************************************************)
(* Bounds of the model.                                                    *)
(***************************************************************************)
\* No instruction is submitted once the event log holds MaxEvents entries.
MaxEvents == 4

Users == {"u1", "u2"}

(***************************************************************************)
(* Accounts and addresses.                                                 *)
(***************************************************************************)
STATE_SEED == "state"

VAULT_SEED == "vault"

Wallet(u) == <<"wallet", u>>

\* Canonical bump of the PDA derived from (seed, user key).
CanonicalBump(seed, u) ==
    IF seed = STATE_SEED THEN (IF u = "u1" THEN 255 ELSE 253)
                         ELSE (IF u = "u1" THEN 254 ELSE 255)

\* Pubkey::find_program_address(&[seed, user.key()], program_id)
find_program_address(seed, u) ==
    [key |-> <<seed, u>>, bump |-> CanonicalBump(seed, u)]

StateKey(u) == find_program_address(STATE_SEED, u).key

\* seeds = [VAULT_SEED] alone: every user is handed the same vault.
VaultKey_shared(u) == <<VAULT_SEED, "u1">>

VaultKey(u) == find_program_address(VAULT_SEED, u).key

Keys == {Wallet(u) : u \in Users} \cup {StateKey(u) : u \in Users}
            \cup {VaultKey(u) : u \in Users}

\* The vault-state PDA of a user that holds no account.
NoAccount == [exists |-> FALSE, state_bump |-> 0, vault_bump |-> 0]

\* #[account] struct VaultState { state_bump: u8, vault_bump: u8 }
VaultState(sb, vb) == [exists |-> TRUE, state_bump |-> sb, vault_bump |-> vb]

\* space = VaultState::DISCRIMINATOR.len() + VaultState::INIT_SPACE
VaultStateSpace == 8 + (1 + 1)

\* Rent::minimum_balance(data_len) with the cluster's rent parameters
\* (128 bytes of account overhead, 3480 lamports per byte-year, 2 years).
minimum_balance(data_len) == U64(0, (128 + data_len) * 3480 * 2)

(***************************************************************************)
(* Results.  An instruction works on `acc`, the accounts it was handed     *)
(* ([lamports, vault_state, events]), and returns Ok with the accounts as  *)
(* it left them or Err with the error that aborted it.                     *)
(***************************************************************************)
Ok(acc) == [err |-> "Ok", acc |-> acc]

Err(e, acc) == [err |-> e, acc |-> acc]

IsOk(r) == r.err = "Ok"

(***************************************************************************)
(* System-program primitives the program calls by CPI.                     *)
(***************************************************************************)
\* system_program::transfer: fails when `from` holds less than `amount`.
transfer(acc, from, to, amount) ==
    IF Lt(acc.lamports[from], amount)
    THEN Err("ResultWithNegativeLamports", acc)
    ELSE Ok([acc EXCEPT !.lamports =
                [k \in Keys |->
                    IF k = from THEN Sub(acc.lamports[k], amount)
                    ELSE IF k = to THEN Add(acc.lamports[k], amount)
                    ELSE acc.lamports[k]]])

\* system_program::allocate + assign of the vault-state PDA of user u: fails
\* when the account already carries data or is owned by a program.
allocate(acc, u) ==
    IF acc.vault_state[u].exists
    THEN Err("AccountAlreadyInUse", acc)
    ELSE Ok([acc EXCEPT !.vault_state[u] = VaultState(0, 0)])

\* system_program::create_account of the vault-state PDA of user u, paid by
\* `from`: fails when the address is in use or the payer cannot fund it.
create_account(acc, from, u, rent) ==
    IF acc.lamports[StateKey(u)] # Zero
    THEN Err("AccountAlreadyInUse", acc)
    ELSE LET a == allocate(acc, u)
         IN  IF ~IsOk(a) THEN a
             ELSE transfer(a.acc, from, StateKey(u), rent)

(***************************************************************************)
(* Events (lib.rs:329-364).                                                *)
(***************************************************************************)
VaultInitialized(u) ==
    [name |-> "VaultInitialized", user |-> Wallet(u), vault |-> VaultKey(u),
     vault_state |-> StateKey(u)]

FundsDeposited(u, amount) ==
    [name |-> "FundsDeposited", user |-> Wallet(u), vault |-> VaultKey(u),
     amount |-> amount]

FundsWithdrawn(u, amount) ==
    [name |-> "FundsWithdrawn", user |-> Wallet(u), vault |-> VaultKey(u),
     amount |-> amount]

VaultClosed(u, final_balance) ==
    [name |-> "VaultClosed", user |-> Wallet(u), vault |-> VaultKey(u),
     final_balance |-> final_balance]

\* The event replaces the log.
emit_overwrites(acc, e) == [acc EXCEPT !.events = <<e>>]

emit(acc, e) == [acc EXCEPT !.events = Append(@, e)]

(***************************************************************************)
(* Account validation (the #[derive(Accounts)] structs).                   *)
(***************************************************************************)
\* seeds = [seed, user.key()], bump = stored: the address re-derived with the
\* stored bump must be the account's address.
SeedsMatch(seed, u, bump) == bump = find_program_address(seed, u).bump

\* init_if_needed: an account that exists is taken as it is.
Initialize_accounts_if_needed(acc, u) ==
    IF acc.vault_state[u].exists THEN Ok(acc)
    ELSE create_account(acc, Wallet(u), u, minimum_balance(VaultStateSpace))

\* Initialize: `init` creates the vault-state PDA, paid by the user.  An
\* address that holds no lamports is created with create_account; one that
\* holds lamports is topped up to the rent-exempt minimum, then allocated
\* and assigned.  The vault is a system account at its canonical address.
Initialize_accounts(acc, u) ==
    LET rent == minimum_balance(VaultStateSpace)
        held == acc.lamports[StateKey(u)]
    IN  IF held = Zero
        THEN create_account(acc, Wallet(u), u, rent)
        ELSE LET required == saturating_sub(rent, held)
                 t == IF required # Zero
                      THEN transfer(acc, Wallet(u), StateKey(u), required)
                      ELSE Ok(acc)
             IN  IF ~IsOk(t) THEN t ELSE allocate(t.acc, u)

\* vault_state is taken unchecked.
Payment_accounts_unchecked(acc, u) == Ok(acc)

\* Payment and Close: vault_state must be an initialized VaultState account
\* at the address derived with its stored state_bump, and vault the system
\* account at the address derived with its stored vault_bump.
Payment_accounts(acc, u) ==
    LET vs == acc.vault_state[u]
    IN  IF ~vs.exists THEN Err("AccountNotInitialized", acc)
        ELSE IF ~SeedsMatch(STATE_SEED, u, vs.state_bump)
             THEN Err("ConstraintSeeds", acc)
        ELSE IF ~SeedsMatch(VAULT_SEED, u, vs.vault_bump)
             THEN Err("ConstraintSeeds", acc)
        ELSE Ok(acc)

Close_accounts(acc, u) == Payment_accounts(acc, u)

\* The lamports are refunded and the record is left in place.
Close_exit_keeps_record(acc, u) ==
    [acc EXCEPT !.lamports =
                    [k \in Keys |->
                        IF k = Wallet(u)
                        THEN Add(acc.lamports[k], acc.lamports[StateKey(u)])
                        ELSE IF k = StateKey(u) THEN Zero
                        ELSE acc.lamports[k]]]

\* The record is deleted and its lamports are not refunded.
Close_exit_no_refund(acc, u) ==
    [acc EXCEPT !.lamports[StateKey(u)] = Zero,
                !.vault_state[u] = NoAccount]

\* `close = user` at exit: the vault-state account's lamports go to the user
\* and the account is deleted.
Close_exit(acc, u) ==
    [acc EXCEPT !.lamports =
                    [k \in Keys |->
                        IF k = Wallet(u)
                        THEN Add(acc.lamports[k], acc.lamports[StateKey(u)])
                        ELSE IF k = StateKey(u) THEN Zero
                        ELSE acc.lamports[k]],
                !.vault_state[u] = NoAccount]

(***************************************************************************)
(* The instructions.                                                       *)
(***************************************************************************)
\* The vault is a system account that carries no data.
vault_data_len == 0

\* The bumps are recorded and the vault is left unfunded.
Initialize_initialize_unfunded(acc, u) ==
    Ok([acc EXCEPT !.vault_state[u] =
                       VaultState(find_program_address(STATE_SEED, u).bump,
                                  find_program_address(VAULT_SEED, u).bump)])

\* The result of the transfer is dropped instead of propagated with `?`:
\* the method returns Ok whether or not the vault was funded.
Initialize_initialize_swallows_error(acc, u) ==
    LET set == [acc EXCEPT !.vault_state[u] =
                    VaultState(find_program_address(STATE_SEED, u).bump,
                               find_program_address(VAULT_SEED, u).bump)]
        t == transfer(set, Wallet(u), VaultKey(u),
                      minimum_balance(vault_data_len))
    IN  IF IsOk(t) THEN t ELSE Ok(set)

\* Initialize::initialize: record the bumps, fund the vault with its
\* rent-exempt minimum.
Initialize_initialize(acc, u) ==
    LET bumps == [vault_state |-> find_program_address(STATE_SEED, u).bump,
                  vault |-> find_program_address(VAULT_SEED, u).bump]
        set == [acc EXCEPT !.vault_state[u] =
                               VaultState(bumps.vault_state, bumps.vault)]
        rent_exempt == minimum_balance(vault_data_len)
    IN  transfer(set, Wallet(u), VaultKey(u), rent_exempt)

\* anchor_vault::initialize
initialize(acc, u) ==
    LET ctx == Initialize_accounts(acc, u)
    IN  IF ~IsOk(ctx) THEN ctx
        ELSE LET r == Initialize_initialize(ctx.acc, u)
             IN  IF ~IsOk(r) THEN r
                 ELSE Ok(emit(r.acc, VaultInitialized(u)))

\* The transfer runs from the vault to the user.
Payment_deposit_reversed(acc, u, amount) ==
    transfer(acc, VaultKey(u), Wallet(u), amount)

\* Payment::deposit
Payment_deposit(acc, u, amount) ==
    transfer(acc, Wallet(u), VaultKey(u), amount)

\* A deposit of 1 to 999 lamports passes the guard.
DepositGuard_nonzero(amount) == Lt(Zero, amount)

\* require!(amount >= MIN_DEPOSIT_AMOUNT, ...) (lib.rs:45)
DepositGuard(amount) == Leq(MIN_DEPOSIT_AMOUNT, amount)

\* anchor_vault::deposit
deposit(acc, u, amount) ==
    LET ctx == Payment_accounts(acc, u)
    IN  IF ~IsOk(ctx) THEN ctx
        ELSE IF ~DepositGuard(amount)
             THEN Err("InsufficientDepositAmount", acc)
        ELSE LET r == Payment_deposit(ctx.acc, u, amount)
             IN  IF ~IsOk(r) THEN r
                 ELSE Ok(emit(r.acc, FundsDeposited(u, amount)))

\* The transfer runs from the user to the vault.
Payment_withdraw_reversed(acc, u, amount) ==
    transfer(acc, Wallet(u), VaultKey(u), amount)

\* Payment::withdraw: transfer signed with the vault seeds, then the
\* require_gte! on the vault's balance after the transfer.
Payment_withdraw(acc, u, amount) ==
    LET t == transfer(acc, VaultKey(u), Wallet(u), amount)
    IN  IF ~IsOk(t) THEN t
        ELSE LET rent_exempt == minimum_balance(vault_data_len)
             IN  IF ~Leq(rent_exempt, t.acc.lamports[VaultKey(u)])
                 THEN Err("RequireGteViolated", t.acc)
                 ELSE t

\* The remainder must exceed the reserve.
ReserveKept_strict(vault_balance, amount, rent_exempt) ==
    Lt(rent_exempt, saturating_sub(vault_balance, amount))

\* The balance before the withdrawal is compared, not the remainder.
ReserveKept_before(vault_balance, amount, rent_exempt) ==
    Leq(rent_exempt, vault_balance)

\* The reserve check before the transfer (lib.rs:73-76).
ReserveKept(vault_balance, amount, rent_exempt) ==
    Leq(rent_exempt, saturating_sub(vault_balance, amount))

\* require!(amount > 0, ...) (lib.rs:67)
WithdrawPositive(amount) == Lt(Zero, amount)

\* The cap admits MAX_WITHDRAWAL_AMOUNT + 1.
WithdrawWithinMax_off_by_one(amount) ==
    Lt(amount, Add(MAX_WITHDRAWAL_AMOUNT, U64(0, 2)))

\* require!(amount <= MAX_WITHDRAWAL_AMOUNT, ...) (lib.rs:68)
WithdrawWithinMax(amount) == Leq(amount, MAX_WITHDRAWAL_AMOUNT)

\* The amount guards alone, then the bare system transfer: the reserve is
\* checked neither before nor after it.
withdraw_without_reserve(acc, u, amount) ==
    LET ctx == Payment_accounts(acc, u)
    IN  IF ~IsOk(ctx) THEN ctx
        ELSE IF ~WithdrawPositive(amount)
             THEN Err("InvalidWithdrawAmount", acc)
        ELSE IF ~WithdrawWithinMax(amount)
             THEN Err("ExceedsMaxWithdrawal", acc)
        ELSE LET r == transfer(ctx.acc, VaultKey(u), Wallet(u), amount)
             IN  IF ~IsOk(r) THEN r
                 ELSE Ok(emit(r.acc, FundsWithdrawn(u, amount)))

\* anchor_vault::withdraw
withdraw(acc, u, amount) ==
    LET ctx == Payment_accounts(acc, u)
    IN  IF ~IsOk(ctx) THEN ctx
        ELSE IF ~WithdrawPositive(amount)
             THEN Err("InvalidWithdrawAmount", acc)
        ELSE IF ~WithdrawWithinMax(amount)
             THEN Err("ExceedsMaxWithdrawal", acc)
        ELSE LET vault_balance == ctx.acc.lamports[VaultKey(u)]
                 rent_exempt == minimum_balance(vault_data_len)
             IN  IF ~ReserveKept(vault_balance, amount, rent_exempt)
                 THEN Err("InsufficientFundsAfterWithdrawal", acc)
                 ELSE LET r == Payment_withdraw(ctx.acc, u, amount)
                      IN  IF ~IsOk(r) THEN r
                          ELSE Ok(emit(r.acc, FundsWithdrawn(u, amount)))

\* The drain leaves the vault its rent-exempt reserve.
Close_close_keeps_reserve(acc, u) ==
    transfer(acc, VaultKey(u), Wallet(u),
             saturating_sub(acc.lamports[VaultKey(u)],
                            minimum_balance(vault_data_len)))

\* The drain is held to the cap that withdraw applies.
Close_close_capped(acc, u) ==
    IF ~WithdrawWithinMax(acc.lamports[VaultKey(u)])
    THEN Err("ExceedsMaxWithdrawal", acc)
    ELSE transfer(acc, VaultKey(u), Wallet(u), acc.lamports[VaultKey(u)])

\* Close::close: drain the vault to the user, signed with the vault seeds.
Close_close(acc, u) ==
    transfer(acc, VaultKey(u), Wallet(u), acc.lamports[VaultKey(u)])

\* The balance reported by VaultClosed is read after the drain.
close_reads_after_drain(acc, u) ==
    LET ctx == Close_accounts(acc, u)
    IN  IF ~IsOk(ctx) THEN ctx
        ELSE LET r == Close_close(ctx.acc, u)
             IN  IF ~IsOk(r) THEN r
                 ELSE Ok(Close_exit(emit(r.acc,
                             VaultClosed(u, r.acc.lamports[VaultKey(u)])), u))

\* anchor_vault::close
close(acc, u) ==
    LET ctx == Close_accounts(acc, u)
    IN  IF ~IsOk(ctx) THEN ctx
        ELSE LET vault_balance == ctx.acc.lamports[VaultKey(u)]
                 r == Close_close(ctx.acc, u)
             IN  IF ~IsOk(r) THEN r
                 ELSE Ok(Close_exit(emit(r.acc, VaultClosed(u, vault_balance)), u))

(***************************************************************************)
(* The state machine.                                                      *)
(***************************************************************************)
\* Lamports a wallet may hold at the start: too little to pay for the
\* vault-state account, enough for it but not for the vault's reserve,
\* enough to open and make small deposits, and more than twice
\* MAX_WITHDRAWAL_AMOUNT.
Poor == U64(0, 500)

Short == Add(minimum_balance(VaultStateSpace), U64(0, 500))

Modest == Add(Add(minimum_balance(VaultStateSpace),
                  minimum_balance(vault_data_len)), U64(0, 6500))

Rich == U64(3 * 1000 * 1000, 0)

\* Amounts passed to deposit and withdraw.
Amounts ==
    { Zero, U64(0, 999), MIN_DEPOSIT_AMOUNT, U64(0, 2000), U64(0, 5000),
      minimum_balance(vault_data_len), MAX_WITHDRAWAL_AMOUNT,
      Add(MAX_WITHDRAWAL_AMOUNT, U64(0, 1)) }

Accounts == [lamports |-> lamports, vault_state |-> vault_state,
             events |-> events]

\* The Result<()> an instruction returns decides the transaction: the host
\* commits the accounts of one that returned Ok and discards those of one
\* that returned Err.  The rollback is the host's, not the program's; what
\* the program decides is which result it returns.
Commit(r) ==
    IF IsOk(r)
    THEN /\ lamports' = r.acc.lamports
         /\ vault_state' = r.acc.vault_state
         /\ events' = r.acc.events
    ELSE UNCHANGED <<lamports, vault_state, events>>

Call(op, u, amount, r) ==
    /\ Len(events) < MaxEvents
    /\ Commit(r)
    /\ last' = [op |-> op, user |-> u, amount |-> amount, result |-> r.err]

Init ==
    /\ \E w2 \in {Poor, Short, Modest} :
           lamports = [k \in Keys |->
                          IF k = Wallet("u1") THEN Rich
                          ELSE IF k = Wallet("u2") THEN w2
                          ELSE Zero]
    /\ vault_state = [u \in Users |-> NoAccount]
    /\ events = <<>>
    /\ last = [op |-> "none", user |-> "none", amount |-> Zero, result |-> "Ok"]

Initialize(u) == Call("initialize", u, Zero, initialize(Accounts, u))

Deposit(u, amount) == Call("deposit", u, amount, deposit(Accounts, u, amount))

Withdraw(u, amount) == Call("withdraw", u, amount, withdraw(Accounts, u, amount))

Close(u) == Call("close", u, Zero, close(Accounts, u))

Next ==
    \E u \in Users :
        \/ Initialize(u)
        \/ \E amount \in Amounts : Deposit(u, amount)
        \/ \E amount \in Amounts : Withdraw(u, amount)
        \/ Close(u)

Spec == Init /\ [][Next]_vars

(***************************************************************************)
(* Properties.                                                             *)
(***************************************************************************)
\* minimum_reserve: the rent-exempt minimum of the vault (fund) account.
R == minimum_balance(vault_data_len)

\* The rent-exempt minimum held by a vault-state account.
StateRent == minimum_balance(VaultStateSpace)

IsOpen(u) == vault_state[u].exists

\* The step is a call of `op` by user u with `amount`.
Calls(op, u, amount) ==
    /\ last'.op = op
    /\ last'.user = u
    /\ last'.amount = amount

\* No account, record or event changes in the step.
NoEffect == UNCHANGED <<lamports, vault_state, events>>

\* The user has closed a vault before.
HasClosed(u) ==
    \E i \in 1..Len(events) :
        events[i].name = "VaultClosed" /\ events[i].user = Wallet(u)

\* C1: in every reachable state, the vault of every user whose VaultState
\* exists holds at least minimum_reserve.
C1_ReserveFloor ==
    \A u \in Users : IsOpen(u) => Leq(R, lamports[VaultKey(u)])

\* A withdrawal has just succeeded and left the vault at exactly the floor.
C1_Witness ==
    /\ last.op = "withdraw"
    /\ last.result = "Ok"
    /\ IsOpen(last.user)
    /\ lamports[VaultKey(last.user)] = R

\* C2: a withdraw(u, a) on an open vault with 0 < a <= MAX_WITHDRAWAL_AMOUNT
\* and balance_before - a >= minimum_reserve succeeds, takes exactly a out of
\* the vault, adds exactly a to the caller and leaves VaultState(u) as it was.
C2_WithdrawSucceeds ==
    [][\A u \in Users, a \in Amounts :
        ( /\ Calls("withdraw", u, a)
          /\ IsOpen(u)
          /\ Lt(Zero, a)
          /\ Leq(a, MAX_WITHDRAWAL_AMOUNT)
          /\ Leq(Add(R, a), lamports[VaultKey(u)]) )
        => /\ last'.result = "Ok"
           /\ lamports'[VaultKey(u)] = Sub(lamports[VaultKey(u)], a)
           /\ lamports'[Wallet(u)] = Add(lamports[Wallet(u)], a)
           /\ vault_state'[u] = vault_state[u]]_vars

\* A withdrawal of exactly MAX_WITHDRAWAL_AMOUNT has just succeeded.
C2_Witness ==
    /\ last.op = "withdraw"
    /\ last.result = "Ok"
    /\ last.amount = MAX_WITHDRAWAL_AMOUNT

\* C3: a withdraw(u, a) on an open vault with 0 < a <= MAX_WITHDRAWAL_AMOUNT
\* and balance_before - a < minimum_reserve (as a mathematical difference)
\* fails with InsufficientFundsAfterWithdrawal and changes nothing.
C3_WithdrawBreachingReserveFails ==
    [][\A u \in Users, a \in Amounts :
        ( /\ Calls("withdraw", u, a)
          /\ IsOpen(u)
          /\ Lt(Zero, a)
          /\ Leq(a, MAX_WITHDRAWAL_AMOUNT)
          /\ Lt(lamports[VaultKey(u)], Add(R, a)) )
        => /\ last'.result = "InsufficientFundsAfterWithdrawal"
           /\ NoEffect]_vars

\* withdraw(u, R) directly after open(u) has just failed with that error.
C3_Witness ==
    /\ last.op = "withdraw"
    /\ last.amount = R
    /\ last.result = "InsufficientFundsAfterWithdrawal"
    /\ events = <<VaultInitialized(last.user)>>
    /\ lamports[VaultKey(last.user)] = R

\* C4: on an open vault withdraw(u, 0) fails with InvalidWithdrawAmount and
\* withdraw(u, a) with a > MAX_WITHDRAWAL_AMOUNT fails with
\* ExceedsMaxWithdrawal, whatever the vault holds, and nothing changes.
C4_WithdrawAmountGuards ==
    [][\A u \in Users, a \in Amounts :
        (Calls("withdraw", u, a) /\ IsOpen(u))
        => /\ (a = Zero =>
                  last'.result = "InvalidWithdrawAmount" /\ NoEffect)
           /\ (Lt(MAX_WITHDRAWAL_AMOUNT, a) =>
                  last'.result = "ExceedsMaxWithdrawal" /\ NoEffect)]_vars

\* An over-limit withdrawal that the vault could have paid without touching
\* its reserve has just failed with ExceedsMaxWithdrawal.
C4_Witness ==
    /\ last.op = "withdraw"
    /\ Lt(MAX_WITHDRAWAL_AMOUNT, last.amount)
    /\ last.result = "ExceedsMaxWithdrawal"
    /\ IsOpen(last.user)
    /\ Leq(Add(R, last.amount), lamports[VaultKey(last.user)])

\* C5: a deposit(u, a) on an open vault with a >= MIN_DEPOSIT_AMOUNT and a
\* caller balance of at least a succeeds, adds exactly a to the vault, takes
\* exactly a from the caller and changes no other balance and no VaultState.
C5_DepositSucceeds ==
    [][\A u \in Users, a \in Amounts :
        ( /\ Calls("deposit", u, a)
          /\ IsOpen(u)
          /\ Leq(MIN_DEPOSIT_AMOUNT, a)
          /\ Leq(a, lamports[Wallet(u)]) )
        => /\ last'.result = "Ok"
           /\ lamports'[VaultKey(u)] = Add(lamports[VaultKey(u)], a)
           /\ lamports'[Wallet(u)] = Sub(lamports[Wallet(u)], a)
           /\ \A k \in Keys \ {VaultKey(u), Wallet(u)} :
                  lamports'[k] = lamports[k]
           /\ vault_state' = vault_state]_vars

\* A deposit of exactly MIN_DEPOSIT_AMOUNT has just succeeded.
C5_Witness ==
    /\ last.op = "deposit"
    /\ last.result = "Ok"
    /\ last.amount = MIN_DEPOSIT_AMOUNT

\* C6: a deposit(u, a) on an open vault with a < MIN_DEPOSIT_AMOUNT fails
\* with InsufficientDepositAmount and leaves the vault's balance, the
\* caller's balance and the event log unchanged.
C6_SmallDepositFails ==
    [][\A u \in Users, a \in Amounts :
        ( /\ Calls("deposit", u, a)
          /\ IsOpen(u)
          /\ Lt(a, MIN_DEPOSIT_AMOUNT) )
        => /\ last'.result = "InsufficientDepositAmount"
           /\ NoEffect]_vars

\* A deposit of 999 into an open vault has just failed with that error.
C6_Witness ==
    /\ last.op = "deposit"
    /\ last.amount = U64(0, 999)
    /\ last.result = "InsufficientDepositAmount"
    /\ IsOpen(last.user)

\* C7: right after every successful open(u), also a re-open after a close,
\* the vault holds exactly minimum_reserve and VaultState(u) exists with the
\* two bumps recorded.
C7_OpenPostcondition ==
    (last.op = "initialize" /\ last.result = "Ok")
    => /\ lamports[VaultKey(last.user)] = R
       /\ vault_state[last.user] =
              VaultState(find_program_address(STATE_SEED, last.user).bump,
                         find_program_address(VAULT_SEED, last.user).bump)

\* A user who closed a vault has just opened one again.
C7_Witness ==
    /\ last.op = "initialize"
    /\ last.result = "Ok"
    /\ HasClosed(last.user)

\* C8: after every successful close(u) the vault holds 0, VaultState(u) is
\* gone, the caller has received the whole vault balance plus the lamports
\* of the vault-state account, and VaultClosed carries the vault balance
\* read before the drain.
C8_ClosePostcondition ==
    [][\A u \in Users :
        (Calls("close", u, Zero) /\ last'.result = "Ok")
        => /\ lamports'[VaultKey(u)] = Zero
           /\ ~vault_state'[u].exists
           /\ lamports[StateKey(u)] = StateRent
           /\ lamports'[StateKey(u)] = Zero
           /\ lamports'[Wallet(u)] =
                  Add(Add(lamports[Wallet(u)], lamports[VaultKey(u)]),
                      StateRent)
           /\ events' = Append(events, VaultClosed(u, lamports[VaultKey(u)]))]_vars

\* A vault that held more than its reserve has just been closed.
C8_Witness ==
    /\ last.op = "close"
    /\ last.result = "Ok"
    /\ Lt(R, events[Len(events)].final_balance)

\* C9: open(u) while VaultState(u) exists fails with AccountAlreadyInUse and
\* changes no balance and no VaultState.
C9_SecondOpenFails ==
    [][\A u \in Users :
        (Calls("initialize", u, Zero) /\ IsOpen(u))
        => /\ last'.result = "AccountAlreadyInUse"
           /\ NoEffect]_vars

\* A second open has just failed on a vault that has seen a deposit and a
\* withdrawal.
C9_Witness ==
    /\ last.op = "initialize"
    /\ last.result = "AccountAlreadyInUse"
    /\ \E i, j \in 1..Len(events) :
           /\ events[i].name = "FundsDeposited"
           /\ events[i].user = Wallet(last.user)
           /\ events[j].name = "FundsWithdrawn"
           /\ events[j].user = Wallet(last.user)

\* C10: for a user with no VaultState, deposit, withdraw and close fail with
\* AccountNotInitialized for every amount, change no balance and create no
\* record.
C10_AbsentVaultFails ==
    [][\A u \in Users, a \in Amounts :
        ( /\ last'.op \in {"deposit", "withdraw", "close"}
          /\ last'.user = u
          /\ last'.amount = a
          /\ ~IsOpen(u) )
        => /\ last'.result = "AccountNotInitialized"
           /\ NoEffect]_vars

\* withdraw(u, 0) by a user who closed the vault has just failed with
\* AccountNotInitialized, not with InvalidWithdrawAmount.
C10_Witness ==
    /\ last.op = "withdraw"
    /\ last.amount = Zero
    /\ last.result = "AccountNotInitialized"
    /\ HasClosed(last.user)
    /\ ~IsOpen(last.user)

\* The conditions, read off the state before the call, under which a call
\* of `op` by user u with `amount` cannot complete: the record it needs is
\* missing or the one it creates exists, an amount guard is violated, the
\* caller cannot pay (the vault-state rent plus the reserve on open, the
\* amount on deposit), or the withdrawal would breach the reserve.
MustFail(op, u, amount) ==
    CASE op = "initialize" ->
             \/ IsOpen(u)
             \/ Lt(lamports[Wallet(u)], Add(StateRent, R))
      [] op = "deposit" ->
             \/ ~IsOpen(u)
             \/ Lt(amount, MIN_DEPOSIT_AMOUNT)
             \/ Lt(lamports[Wallet(u)], amount)
      [] op = "withdraw" ->
             \/ ~IsOpen(u)
             \/ amount = Zero
             \/ Lt(MAX_WITHDRAWAL_AMOUNT, amount)
             \/ Lt(lamports[VaultKey(u)], Add(R, amount))
      [] op = "close" -> ~IsOpen(u)

\* C11: every operation is all-or-nothing: a call of open, deposit, withdraw
\* or close that cannot complete (a guard is violated, the caller cannot pay
\* during open or deposit, the record is missing or already there) returns
\* an error, and every call that returns an error, for whatever reason,
\* leaves every balance, every VaultState and the event log as they were
\* before the call: no step that ran before the failing one is kept.
C11_FailureHasNoEffect ==
    [][\A u \in Users :
        ( /\ last'.user = u
          /\ (MustFail(last'.op, u, last'.amount) \/ last'.result # "Ok") )
        => /\ last'.result # "Ok"
           /\ NoEffect]_vars

\* open has just failed on its transfer to the vault, after the `init`
\* constraint had created and funded the vault-state account.
C11_Witness ==
    /\ last.op = "initialize"
    /\ last.result = "ResultWithNegativeLamports"
    /\ Leq(StateRent, lamports[Wallet(last.user)])
    /\ Lt(lamports[Wallet(last.user)], Add(StateRent, R))
    /\ ~IsOpen(last.user)

\* C12: an operation signed by u, successful or not, never changes the
\* VaultState, the vault balance, the vault-state balance or the wallet of
\* another user v.
C12_VaultsIsolated ==
    [][\A u, v \in Users :
        (last'.user = u /\ v # u)
        => /\ vault_state'[v] = vault_state[v]
           /\ lamports'[VaultKey(v)] = lamports[VaultKey(v)]
           /\ lamports'[StateKey(v)] = lamports[StateKey(v)]
           /\ lamports'[Wallet(v)] = lamports[Wallet(v)]]_vars

\* A user has just deposited into their vault while another user's vault
\* is open and holds a deposit.
C12_Witness ==
    /\ last.op = "deposit"
    /\ last.result = "Ok"
    /\ \E v \in Users \ {last.user} :
           IsOpen(v) /\ Lt(R, lamports[VaultKey(v)])

\* The event a successful call of `op` by u with `amount` appends, given the
\* vault balance before the call.
ExpectedEvent(op, u, amount, balance_before) ==
    CASE op = "initialize" -> VaultInitialized(u)
      [] op = "deposit"    -> FundsDeposited(u, amount)
      [] op = "withdraw"   -> FundsWithdrawn(u, amount)
      [] op = "close"      -> VaultClosed(u, balance_before)

\* C13: the event log is append-only: a successful operation appends exactly
\* one event, the one of its kind with the caller, the vault (and the state
\* record for open) and the amount the call moved; a failed one appends none.
C13_EventLog ==
    [][\A u \in Users :
        (last'.user = u)
        => LET before == lamports[VaultKey(u)]
               after  == lamports'[VaultKey(u)]
           IN  IF last'.result = "Ok"
               THEN /\ events' = Append(events,
                          ExpectedEvent(last'.op, u, last'.amount, before))
                    /\ (last'.op = "deposit" =>
                           after = Add(before, events'[Len(events')].amount))
                    /\ (last'.op = "withdraw" =>
                           before = Add(after, events'[Len(events')].amount))
                    /\ (last'.op = "close" =>
                           before = Add(after,
                                        events'[Len(events')].final_balance))
               ELSE events' = events]_vars

\* A call has just failed and the log holds the events of the three calls
\* that succeeded before it, in their order.
C13_Witness ==
    /\ last.result # "Ok"
    /\ Len(events) = 3
    /\ events[1].name = "VaultInitialized"
    /\ events[2].name = "FundsDeposited"
    /\ events[3].name = "FundsWithdrawn"

\* The sum of the amounts of the events `name` of user u among
\* events[lo..hi].
RECURSIVE SumOf(_, _, _, _)
SumOf(name, u, lo, hi) ==
    IF lo > hi THEN Zero
    ELSE LET e == events[hi]
             rest == SumOf(name, u, lo, hi - 1)
         IN  IF e.name = name /\ e.user = Wallet(u)
             THEN Add(rest, e.amount)
             ELSE rest

\* The index of the latest VaultInitialized of user u among events[1..i].
OpenedAt(u, i) ==
    CHOOSE j \in 1..i :
        /\ events[j] = VaultInitialized(u)
        /\ \A k \in (j + 1)..i : events[k] # VaultInitialized(u)

\* C14: after open(u) and any sequence of successful deposits and
\* withdrawals the vault holds minimum_reserve plus the deposited amounts
\* minus the withdrawn amounts; a close emits exactly that value as
\* final_balance and leaves the vault at 0.
C14_BalanceIsReservePlusNet ==
    \A u \in Users :
        /\ IsOpen(u) =>
               LET n == Len(events)
                   j == OpenedAt(u, n)
               IN  Add(lamports[VaultKey(u)], SumOf("FundsWithdrawn", u, j, n))
                       = Add(R, SumOf("FundsDeposited", u, j, n))
        /\ \A i \in 1..Len(events) :
               (events[i].name = "VaultClosed" /\ events[i].user = Wallet(u))
               => LET j == OpenedAt(u, i)
                  IN  Add(events[i].final_balance,
                          SumOf("FundsWithdrawn", u, j, i))
                          = Add(R, SumOf("FundsDeposited", u, j, i))
        /\ (last.op = "close" /\ last.result = "Ok" /\ last.user = u)
               => lamports[VaultKey(u)] = Zero

\* open, deposit(5000), withdraw(2000), close have run: the log ends with
\* final_balance = R + 3000 and the vault holds 0.
C14_Witness ==
    \E u \in Users :
        /\ events = << VaultInitialized(u),
                       FundsDeposited(u, U64(0, 5000)),
                       FundsWithdrawn(u, U64(0, 2000)),
                       VaultClosed(u, Add(R, U64(0, 3000))) >>
        /\ lamports[VaultKey(u)] = Zero

\* C15: the require_gte! after the transfer never fails: from every
\* reachable state, for every amount that passes the reserve check before
\* the transfer and whose transfer out of the vault succeeds, the vault
\* balance read after the transfer is at least minimum_reserve, and no call
\* ever returns RequireGteViolated.
C15_PostCheckNeverFails ==
    /\ last.result # "RequireGteViolated"
    /\ \A u \in Users, a \in Amounts :
           (IsOpen(u) /\ ReserveKept(lamports[VaultKey(u)], a, R))
           => LET t == transfer(Accounts, VaultKey(u), Wallet(u), a)
              IN  /\ IsOk(t)
                  /\ Leq(R, t.acc.lamports[VaultKey(u)])
                  /\ IsOk(Payment_withdraw(Accounts, u, a))

\* A withdrawal of as much as the reserve itself has just passed both
\* checks and left the vault at exactly minimum_reserve.
C15_Witness ==
    /\ last.op = "withdraw"
    /\ last.result = "Ok"
    /\ last.amount = R
    /\ lamports[VaultKey(last.user)] = R

\* C16: funds are never locked: in every reachable state in which
\* VaultState(u) exists, whatever the vault holds, close(u) signed by u
\* succeeds, empties the vault and hands the user the whole vault balance
\* (with the lamports of the vault-state account).
C16_CloseAlwaysSucceeds ==
    \A u \in Users :
        IsOpen(u)
        => LET r == close(Accounts, u)
           IN  /\ IsOk(r)
               /\ r.acc.lamports[VaultKey(u)] = Zero
               /\ ~r.acc.vault_state[u].exists
               /\ r.acc.lamports[Wallet(u)] =
                      Add(Add(lamports[Wallet(u)], lamports[VaultKey(u)]),
                          lamports[StateKey(u)])

\* A vault that held more than MAX_WITHDRAWAL_AMOUNT above its reserve has
\* just been closed and is empty.
C16_Witness ==
    /\ last.op = "close"
    /\ last.result = "Ok"
    /\ Lt(Add(R, MAX_WITHDRAWAL_AMOUNT), events[Len(events)].final_balance)
    /\ lamports[VaultKey(last.user)] = Zero

\* The accounts the host keeps after an instruction that started from `acc`
\* and returned r.
After(acc, r) == IF IsOk(r) THEN r.acc ELSE acc

\* C17: two withdraw transactions a1 then a2 against the same vault with
\* balance B run one after the other (for every pair, so in either order):
\* the second checks the reserve against the balance the first left, both
\* succeed only if B - a1 - a2 >= minimum_reserve, and the balance ends at
\* or above minimum_reserve.
C17_WithdrawalsSerialized ==
    \A u \in Users, a1 \in Amounts, a2 \in Amounts :
        IsOpen(u)
        => LET B    == lamports[VaultKey(u)]
               r1   == withdraw(Accounts, u, a1)
               acc1 == After(Accounts, r1)
               r2   == withdraw(acc1, u, a2)
               acc2 == After(acc1, r2)
           IN  /\ (IsOk(r1) /\ IsOk(r2))
                      => /\ Leq(Add(Add(R, a1), a2), B)
                         /\ acc2.lamports[VaultKey(u)] = Sub(Sub(B, a1), a2)
               /\ (IsOk(r1) /\ ~IsOk(r2))
                      => acc2.lamports[VaultKey(u)] = Sub(B, a1)
               /\ Leq(R, acc2.lamports[VaultKey(u)])

\* Of two withdrawals that each fit the balance alone, the first has
\* succeeded and the second has just failed on the balance the first left.
C17_Witness ==
    /\ last.op = "withdraw"
    /\ last.result = "InsufficientFundsAfterWithdrawal"
    /\ Len(events) > 0
    /\ events[Len(events)].name = "FundsWithdrawn"
    /\ events[Len(events)].user = Wallet(last.user)
    /\ Leq(Add(R, last.amount),
           Add(lamports[VaultKey(last.user)], events[Len(events)].amount))

\* What the accounts of user u hold in each of the two lifecycle states:
\* Open, the record with its bumps and its rent; Absent, nothing at all.
LifecycleState(u) ==
    IF IsOpen(u)
    THEN /\ vault_state[u] =
                VaultState(find_program_address(STATE_SEED, u).bump,
                           find_program_address(VAULT_SEED, u).bump)
         /\ lamports[StateKey(u)] = StateRent
    ELSE /\ vault_state[u] = NoAccount
         /\ lamports[StateKey(u)] = Zero
         /\ lamports[VaultKey(u)] = Zero

\* The step is a successful call of `op` by user u.
Succeeds(op, u) ==
    /\ last'.op = op
    /\ last'.user = u
    /\ last'.result = "Ok"

\* C18: per user the lifecycle is Absent -> Open by open, Open -> Open by
\* deposit and withdraw, Open -> Absent by close, and nothing else; it
\* repeats: after a close the user is Absent with an empty vault, and an
\* open by an Absent user who can pay for it succeeds and starts the vault
\* at exactly minimum_reserve.
C18_Lifecycle ==
    [][\A u \in Users :
        /\ LifecycleState(u)
        /\ LifecycleState(u)'
        /\ (~IsOpen(u) /\ IsOpen(u)') => Succeeds("initialize", u)
        /\ (IsOpen(u) /\ ~IsOpen(u)') => Succeeds("close", u)
        /\ Succeeds("initialize", u) => (~IsOpen(u) /\ IsOpen(u)')
        /\ Succeeds("deposit", u) => (IsOpen(u) /\ IsOpen(u)')
        /\ Succeeds("withdraw", u) => (IsOpen(u) /\ IsOpen(u)')
        /\ Succeeds("close", u) => (IsOpen(u) /\ ~IsOpen(u)')
        /\ ( /\ Calls("initialize", u, Zero)
             /\ ~IsOpen(u)
             /\ Leq(Add(StateRent, R), lamports[Wallet(u)]) )
           => /\ last'.result = "Ok"
              /\ lamports'[VaultKey(u)] = R]_vars

\* A user has gone through the lifecycle twice: opened, closed, opened
\* again and has just closed again.
C18_Witness ==
    /\ last.op = "close"
    /\ last.result = "Ok"
    /\ Len(events) = 4
    /\ events[1] = VaultInitialized(last.user)
    /\ events[2].name = "VaultClosed"
    /\ events[3] = VaultInitialized(last.user)
    /\ events[4].name = "VaultClosed"
    /\ events[4].user = Wallet(last.user)
    /\ ~IsOpen(last.user)

\* What user u owns: the wallet, the vault and the lamports held by the
\* vault-state account.
Holdings(u) ==
    Add(Add(lamports[Wallet(u)], lamports[VaultKey(u)]), lamports[StateKey(u)])

\* C19: value is conserved: for each user the sum of the wallet, the vault
\* and the lamports of the vault-state account is the same before and after
\* every open, deposit, withdraw and close, successful or failed.
C19_ValueConserved ==
    [][\A u \in Users : Holdings(u)' = Holdings(u)]_vars

\* The user who started with the smaller wallet has opened a vault,
\* deposited and has just closed it, and holds the starting sum again.
C19_Witness ==
    /\ last.op = "close"
    /\ last.result = "Ok"
    /\ last.user = "u2"
    /\ Len(events) = 3
    /\ events[2].name = "FundsDeposited"
    /\ events[2].user = Wallet("u2")
    /\ lamports[Wallet("u2")] = Modest
====
